---------------------------- MODULE Spec2Model ----------------------------
(***************************************************************************)
(* A model of scrape.py: the trip matcher build_table (specification Spec) *)
(* and the run matrix builder parse_path (specification PathSpec).         *)
(*                                                                         *)
(* Representation.                                                         *)
(*  - A datetime is an integer: minutes since 1900-01-01 00:00, the date   *)
(*    strptime('%H:%M') gives.  A timedelta is an integer of minutes.      *)
(*  - Python lists are sequences; indices are 1-based here (enumerate's i  *)
(*    is shifted by one, which changes no comparison).                     *)
(*  - Python tuples are TLA+ tuples, compared lexicographically as Python  *)
(*    compares them; strings are compared by their rank in Alphabet.       *)
(*  - A timetable cell is <<>> for None and <<t>> for the datetime t; an   *)
(*    unbound local or a value never returned is <<>> or "".               *)
(*  - A Python set is a bag in which set.add keeps every count at one.     *)
(*  - The input list linesdata is consumed once, front to back: the model  *)
(*    draws each route+direction and each run when the loop reaches it,    *)
(*    and the list or a timetable may end at any point within the bounds.  *)
(***************************************************************************)
EXTENDS Integers, Sequences, FiniteSets, Bags, TLC

None == <<>>

\* A cell that holds the datetime t.
Some(t) == <<t>>

\* ------------------------------------------------------------- bounds
MaxRoutes == 2      \* route+directions in linesdata
MaxRuns == 2        \* runs in one timetable
MaxPages == 2       \* pages of one route+direction
MaxCols == 1        \* runs on one page
Hop == 2            \* minutes between two stops of a run

\* ------------------------------------------------------------- strings
\* The strings of the model in Python's str order (digits before letters).
Alphabet == <<"1", "2", "A", "B", "C">>

StrRank(s) == CHOOSE i \in 1..Len(Alphabet) : Alphabet[i] = s

StrLess(a, b) == StrRank(a) < StrRank(b)

\* The lines of the command line, in order; linesdata follows that order.
LineArgs == <<"1", "2">>

\* The lines whose route+directions may follow those of the line l in
\* linesdata: l itself (another direction of it) and the lines after it.
LinesFrom(l) ==
    {LineArgs[i] : i \in {j \in 1..Len(LineArgs) :
                              \A k \in 1..Len(LineArgs) : LineArgs[k] = l => k <= j}}

\* The stop orderings of the routes: a line's two directions.
RouteStops == {<<"A", "B", "C">>, <<"C", "B", "A">>}

\* Walking times in minutes (the values of config['home'], config['office']).
Walks == {1, 4}

\* An AnchorSet: a dict from some stop names to minutes.
AnchorSets(names) == UNION {[S -> Walks] : S \in SUBSET names}

\* The stops near home and the stops near the office; "B" is near both.
HomeStops == {"A", "B"}

OfficeStops == {"B", "C"}

\* The datetimes parse_time returns for the first stop of a run (00:02, ...).
Starts == {2}

\* The runs of a timetable with n stops: a run starts at one of Starts, takes
\* Hop minutes from a stop to the next, and serves some of the stops; the
\* cell of a stop it does not serve is None.
Runs(n) ==
    {[k \in 1..n |-> IF k \in S THEN Some(s + (k - 1) * Hop) ELSE None] :
        s \in Starts, S \in SUBSET (1..n)}

\* ------------------------------------------------------------- time
MINUTE == 1

DayMinutes == 24 * 60

\* strftime('%H:%M') with the leading zero stripped: hour and minute of day.
time_s(time) ==
    LET tod == time % DayMinutes
    IN  <<tod \div 60, tod % 60>>

\* ------------------------------------------------------------- tuples
\* (i, stop, delta) < (j, stop2, delta2)
IdxLess(a, b) ==
    \/ a[1] < b[1]
    \/ a[1] = b[1] /\ StrLess(a[2], b[2])
    \/ a[1] = b[1] /\ a[2] = b[2] /\ a[3] < b[3]

\* (time -/+ delta, time, stop) < (...)
CandLess(a, b) ==
    \/ a[1] < b[1]
    \/ a[1] = b[1] /\ a[2] < b[2]
    \/ a[1] = b[1] /\ a[2] = b[2] /\ StrLess(a[3], b[3])

\* (orig_stop, dest_stop, line) < (...)
TripLess(a, b) ==
    \/ CandLess(a[1], b[1])
    \/ a[1] = b[1] /\ CandLess(a[2], b[2])
    \/ a[1] = b[1] /\ a[2] = b[2] /\ StrLess(a[3], b[3])

\* max() and min() of a non-empty list: the first greatest / least element.
MaxIdx(seq) ==
    LET f[k \in 1..Len(seq)] ==
            IF k = 1 THEN seq[1]
            ELSE IF IdxLess(f[k - 1], seq[k]) THEN seq[k] ELSE f[k - 1]
    IN  f[Len(seq)]

MinIdx(seq) ==
    LET f[k \in 1..Len(seq)] ==
            IF k = 1 THEN seq[1]
            ELSE IF IdxLess(seq[k], f[k - 1]) THEN seq[k] ELSE f[k - 1]
    IN  f[Len(seq)]

\* A faulty max(): the first candidate, whatever its value.
FirstCand(seq) == seq[1]

MaxCand(seq) ==
    LET f[k \in 1..Len(seq)] ==
            IF k = 1 THEN seq[1]
            ELSE IF CandLess(f[k - 1], seq[k]) THEN seq[k] ELSE f[k - 1]
    IN  f[Len(seq)]

MinCand(seq) ==
    LET f[k \in 1..Len(seq)] ==
            IF k = 1 THEN seq[1]
            ELSE IF CandLess(seq[k], f[k - 1]) THEN seq[k] ELSE f[k - 1]
    IN  f[Len(seq)]

\* ------------------------------------------------------------- build_table
\* filter_idx: the (i, stop, delta * MINUTE) of the stops that are keys of
\* filtered, in stop order.
filter_idx(stopnames, filtered) ==
    LET f[k \in 0..Len(stopnames)] ==
            IF k = 0 THEN <<>>
            ELSE IF stopnames[k] \in DOMAIN filtered
                 THEN Append(f[k - 1],
                             <<k, stopnames[k], filtered[stopnames[k]] * MINUTE>>)
                 ELSE f[k - 1]
    IN  f[Len(stopnames)]

\* get_stops: the (time, stop, delta) of the listed stops whose time is not None.
get_stops(idxlist, thetimes) ==
    LET f[k \in 0..Len(idxlist)] ==
            IF k = 0 THEN <<>>
            ELSE IF thetimes[idxlist[k][1]] # None
                 THEN Append(f[k - 1],
                             <<thetimes[idxlist[k][1]][1], idxlist[k][2], idxlist[k][3]>>)
                 ELSE f[k - 1]
    IN  f[Len(idxlist)]

\* The generator expressions of lines 112 and 113.
OrigCands(idxlist, thetimes) ==
    LET g == get_stops(idxlist, thetimes)
    IN  [k \in 1..Len(g) |-> <<g[k][1] - g[k][3], g[k][1], g[k][2]>>]

DestCands(idxlist, thetimes) ==
    LET g == get_stops(idxlist, thetimes)
    IN  [k \in 1..Len(g) |-> <<g[k][1] + g[k][3], g[k][1], g[k][2]>>]

ErrMax == "ValueError: max() arg is an empty sequence"
ErrMin == "ValueError: min() arg is an empty sequence"
ErrAmbiguous == "ValueError: trips that go from home to office and back or viceversa are not supported"

\* A faulty classification: the two labels exchanged.
ClassifySwapped(ih, io) ==
    IF ih = <<>> THEN ErrMax
    ELSE IF io = <<>> THEN ErrMin
    ELSE IF IdxLess(MaxIdx(io), MinIdx(ih)) THEN "home2office"
    ELSE IF IdxLess(MaxIdx(ih), MinIdx(io)) THEN "office2home"
    ELSE ErrAmbiguous

\* Lines 101-108: the set the route+direction's trips go to, or the error
\* raised: max() and min() raise on an empty list, and the lists are compared
\* as Python compares tuples.
Classify(ih, io) ==
    IF ih = <<>> THEN ErrMax
    ELSE IF io = <<>> THEN ErrMin
    ELSE IF IdxLess(MaxIdx(ih), MinIdx(io)) THEN "home2office"
    ELSE IF IdxLess(MaxIdx(io), MinIdx(ih)) THEN "office2home"
    ELSE ErrAmbiguous

\* A faulty set.add: list.append, which keeps a value it holds already.
SetAddAgain(acc, t) == acc (+) SetToBag({t})

\* set.add: a set holds a value once.
SetAdd(acc, t) == IF BagIn(t, acc) THEN acc ELSE acc (+) SetToBag({t})

\* sorted(): the elements in ascending tuple order, least first.
RECURSIVE Sorted(_)
Sorted(acc) ==
    IF acc = EmptyBag THEN <<>>
    ELSE LET least == CHOOSE t \in BagToSet(acc) :
                          \A u \in BagToSet(acc) : ~TripLess(u, t)
         IN  <<least>> \o Sorted(acc (-) SetToBag({least}))

\* table(): one row per trip; headers are constant and left out.
table(thetrip) ==
    [k \in 1..Len(thetrip) |->
        LET leave == thetrip[k][1][1]
            board == thetrip[k][1][2]
            orig == thetrip[k][1][3]
            arrive == thetrip[k][2][1]
            descend == thetrip[k][2][2]
            dest == thetrip[k][2][3]
            theline == thetrip[k][3]
        IN  << <<time_s(leave), time_s(arrive)>>,
               (arrive - leave) % DayMinutes,
               time_s(board), orig, theline, time_s(descend), dest >>]

\* ------------------------------------------------------------- parse_path
\* The text of a td is a sequence of characters.
Bar == <<"|">>

Digits == <<"0", "1", "2", "3", "4", "5", "6", "7", "8", "9">>

\* The time shown on the n-th page of a route+direction: 01:15, 02:15, ...
\* (a later page holds later runs).
TimeText(n) == <<"0", Digits[n + 1], ":", "1", "5">>

\* The texts a td of the n-th page may hold.
CellTexts(n) == {Bar, TimeText(n)}

DigitVal(c) == (CHOOSE i \in 1..Len(Digits) : Digits[i] = c) - 1

\* parse_time: strptime(timestring, '%H:%M'), for a text of the form HH:MM.
parse_time(timestring) ==
    (DigitVal(timestring[1]) * 10 + DigitVal(timestring[2])) * 60
        + DigitVal(timestring[4]) * 10 + DigitVal(timestring[5])

\* Line 44: the value of one td.
CellValue(text) == IF text # Bar THEN Some(parse_time(text)) ELSE None

\* The stop orderings a first page may give, and the tr's a page may hold.
PathStops == {<<"A">>, <<"A", "B">>}

RowCounts == {1, 2}

\* The rows of the p-th page: n tr's of c td's each; on a malformed page the
\* last tr is short of one td.
PageRows(p) ==
    UNION {
        {r \in [1..n -> UNION {[1..k -> CellTexts(p)] : k \in {c, c - short}}] :
            \A i \in 1..n : Len(r[i]) = IF i = n THEN c - short ELSE c} :
        n \in RowCounts, c \in 0..MaxCols, short \in {0, 1} }

\* A faulty for loop: each timerow is replaced by the row's values.
AbsorbOverwrite(tt, rws) ==
    [k \in 1..Len(tt) |->
        IF k <= Len(rws)
        THEN [j \in 1..Len(rws[k]) |-> CellValue(rws[k][j])]
        ELSE tt[k]]

\* Lines 43-46: zip(timetable, rows) pairs the lists up to the shorter one;
\* each timerow is extended by the values of its row.
Absorb(tt, rws) ==
    [k \in 1..Len(tt) |->
        IF k <= Len(rws)
        THEN tt[k] \o [j \in 1..Len(rws[k]) |-> CellValue(rws[k][j])]
        ELSE tt[k]]

\* list(zip(*timetable)): one tuple per column, up to the shortest timerow.
Transpose(tt) ==
    IF tt = <<>> THEN <<>>
    ELSE LET n == CHOOSE m \in {Len(tt[k]) : k \in 1..Len(tt)} :
                      \A k \in 1..Len(tt) : m <= Len(tt[k])
         IN  [j \in 1..n |-> [k \in 1..Len(tt) |-> tt[k][j]]]

ErrAssert == "AssertionError"

VARIABLES
    home, office,           \* the AnchorSets (arguments of build_table)
    li,                     \* route+directions of linesdata taken
    line, stops,            \* the route+direction in hand
    ri, times,              \* runs of it done, and the run in hand
    idx_home, idx_office, trip, idx_orig, idx_dest,
    home2office, office2home,
    added,                  \* history: the calls of trip.add for the route+direction in hand
    tables,                 \* the value build_table returns
    err,                    \* the exception that left build_table
    pc,
    \* parse_path
    path_soup,              \* the page in hand: its rows and whether it links a later page
    pstops, rows, timetable,
    fetched,                \* history: the pages opened, in order
    absorbed,               \* history: how many pages the for loop of line 43 has run on
    presult,                \* the value parse_path returns
    perr,                   \* the exception that left parse_path
    ppc

mvars == <<home, office, li, line, stops, ri, times,
           idx_home, idx_office, trip, idx_orig, idx_dest,
           home2office, office2home, added, tables, err, pc>>

pvars == <<path_soup, pstops, rows, timetable, fetched, absorbed, presult, perr, ppc>>

vars == <<mvars, pvars>>

\* build_table is not running / parse_path is not running.
MatcherIdle ==
    /\ home = <<>> /\ office = <<>>
    /\ li = 0
    /\ line = "" /\ stops = <<>>
    /\ ri = 0 /\ times = <<>>
    /\ idx_home = <<>> /\ idx_office = <<>>
    /\ trip = "" /\ idx_orig = <<>> /\ idx_dest = <<>>
    /\ home2office = EmptyBag /\ office2home = EmptyBag
    /\ added = 0
    /\ tables = None
    /\ err = ""
    /\ pc = "idle"

PathIdle ==
    /\ path_soup = [rows |-> <<>>, next |-> FALSE]
    /\ pstops = <<>> /\ rows = <<>> /\ timetable = <<>>
    /\ fetched = <<>> /\ absorbed = 0
    /\ presult = None /\ perr = ""
    /\ ppc = "idle"

Init ==
    /\ home \in AnchorSets(HomeStops)
    /\ office \in AnchorSets(OfficeStops)
    /\ li = 0
    /\ line = "" /\ stops = <<>>
    /\ ri = 0 /\ times = <<>>
    /\ idx_home = <<>> /\ idx_office = <<>>
    /\ trip = "" /\ idx_orig = <<>> /\ idx_dest = <<>>
    /\ home2office = EmptyBag /\ office2home = EmptyBag
    /\ added = 0
    /\ tables = None
    /\ err = ""
    /\ pc = "route"
    /\ PathIdle

\* Lines 96-108: the next route+direction of linesdata is taken and classified.
NextRoute ==
    /\ pc = "route" /\ li < MaxRoutes
    /\ li' = li + 1
    /\ \E l \in LinesFrom(line), st \in RouteStops :
        LET ih == filter_idx(st, home)
            io == filter_idx(st, office)
            c == Classify(ih, io)
        IN  /\ line' = l /\ stops' = st
            /\ idx_home' = ih /\ idx_office' = io
            /\ ri' = 0 /\ times' = <<>>
            /\ \/ /\ c = "home2office"
                  /\ trip' = c /\ idx_orig' = ih /\ idx_dest' = io
                  /\ pc' = "runs" /\ err' = err
               \/ /\ c = "office2home"
                  /\ trip' = c /\ idx_orig' = io /\ idx_dest' = ih
                  /\ pc' = "runs" /\ err' = err
               \/ /\ c \notin {"home2office", "office2home"}
                  /\ err' = c /\ pc' = "failed"
                  /\ UNCHANGED <<trip, idx_orig, idx_dest>>
    /\ added' = 0
    /\ UNCHANGED <<home, office, home2office, office2home, tables>>
    /\ UNCHANGED pvars

\* A faulty loop body: the ValueError of max() or min() is not caught.
MatchRunNoCatch ==
    /\ pc = "runs" /\ ri < MaxRuns
    /\ \E t \in Runs(Len(stops)) :
        LET oc == OrigCands(idx_orig, t)
            dc == DestCands(idx_dest, t)
        IN  /\ times' = t
            /\ \/ /\ oc = <<>>
                  /\ err' = ErrMax /\ pc' = "failed"
                  /\ UNCHANGED <<home2office, office2home, added>>
               \/ /\ oc # <<>> /\ dc = <<>>
                  /\ err' = ErrMin /\ pc' = "failed"
                  /\ UNCHANGED <<home2office, office2home, added>>
               \/ /\ oc # <<>> /\ dc # <<>>
                  /\ added' = added + 1
                  /\ UNCHANGED <<err, pc>>
                  /\ LET orig_stop == MaxCand(oc)
                         dest_stop == MinCand(dc)
                     IN  IF trip = "home2office"
                         THEN /\ home2office' = SetAdd(home2office, <<orig_stop, dest_stop, line>>)
                              /\ UNCHANGED office2home
                         ELSE /\ office2home' = SetAdd(office2home, <<orig_stop, dest_stop, line>>)
                              /\ UNCHANGED home2office
    /\ ri' = ri + 1
    /\ UNCHANGED <<home, office, li, line, stops,
                   idx_home, idx_office, trip, idx_orig, idx_dest, tables>>
    /\ UNCHANGED pvars

\* Lines 110-116: one run of the timetable; the ValueError of max() or min()
\* on no candidate is caught and the loop goes on.
MatchRun ==
    /\ pc = "runs" /\ ri < MaxRuns
    /\ \E t \in Runs(Len(stops)) :
        LET oc == OrigCands(idx_orig, t)
            dc == DestCands(idx_dest, t)
        IN  /\ times' = t
            /\ \/ /\ oc = <<>>                      \* max() raises: continue
                  /\ UNCHANGED <<home2office, office2home, added>>
               \/ /\ oc # <<>> /\ dc = <<>>         \* min() raises: continue
                  /\ UNCHANGED <<home2office, office2home, added>>
               \/ /\ oc # <<>> /\ dc # <<>>
                  /\ added' = added + 1
                  /\ LET orig_stop == MaxCand(oc)
                         dest_stop == MinCand(dc)
                     IN  IF trip = "home2office"
                         THEN /\ home2office' = SetAdd(home2office, <<orig_stop, dest_stop, line>>)
                              /\ UNCHANGED office2home
                         ELSE /\ office2home' = SetAdd(office2home, <<orig_stop, dest_stop, line>>)
                              /\ UNCHANGED home2office
    /\ ri' = ri + 1
    /\ UNCHANGED <<home, office, li, line, stops,
                   idx_home, idx_office, trip, idx_orig, idx_dest, tables, err, pc>>
    /\ UNCHANGED pvars

\* The timetable is exhausted: back to the loop over route+directions.
EndRoute ==
    /\ pc = "runs"
    /\ pc' = "route"
    /\ UNCHANGED <<home, office, li, line, stops, ri, times,
                   idx_home, idx_office, trip, idx_orig, idx_dest,
                   home2office, office2home, added, tables, err>>
    /\ UNCHANGED pvars

\* Lines 118-135: linesdata is exhausted; the sets are sorted and tabulated.
Finish ==
    /\ pc = "route"
    /\ home2office' = Sorted(home2office)
    /\ office2home' = Sorted(office2home)
    /\ tables' = <<table(home2office'), table(office2home')>>
    /\ pc' = "done"
    /\ UNCHANGED <<home, office, li, line, stops, ri, times,
                   idx_home, idx_office, trip, idx_orig, idx_dest, added, err>>
    /\ UNCHANGED pvars

Next == NextRoute \/ MatchRun \/ EndRoute \/ Finish

Spec == Init /\ [][Next]_vars

\* ------------------------------------------------------------- parse_path
PathInit ==
    /\ MatcherIdle
    /\ path_soup = [rows |-> <<>>, next |-> FALSE]
    /\ pstops = <<>> /\ rows = <<>> /\ timetable = <<>>
    /\ fetched = <<>> /\ absorbed = 0
    /\ presult = None /\ perr = ""
    /\ ppc = "start"

\* A page the site may answer with; the chain of pages ends within MaxPages.
Pages(n) ==
    {[rows |-> r, next |-> x] :
        r \in PageRows(n), x \in {b \in BOOLEAN : b => n < MaxPages}}

\* Lines 36-40: the first page is opened; stops, rows and timetable are set.
Open ==
    /\ ppc = "start"
    /\ \E st \in PathStops, pg \in Pages(1) :
        /\ path_soup' = pg
        /\ pstops' = st
        /\ rows' = pg.rows
        /\ timetable' = [k \in 1..Len(pg.rows) |-> <<>>]
        /\ fetched' = <<pg>>
    /\ ppc' = "loop"
    /\ UNCHANGED <<absorbed, presult, perr>>
    /\ UNCHANGED mvars

\* A faulty pass: no assertion (zip() then pairs up to the shorter list).
IterateNoAssert ==
    /\ ppc = "loop"
    /\ timetable' = Absorb(timetable, rows)
    /\ absorbed' = absorbed + 1
    /\ \/ /\ ~path_soup.next
          /\ presult' = <<pstops, Transpose(timetable')>>
          /\ ppc' = "done"
          /\ UNCHANGED <<path_soup, rows, fetched>>
       \/ /\ path_soup.next
          /\ \E pg \in Pages(Len(fetched) + 1) :
              /\ path_soup' = pg
              /\ rows' = pg.rows
              /\ fetched' = Append(fetched, pg)
          /\ UNCHANGED <<presult, ppc>>
    /\ UNCHANGED <<pstops, perr>>
    /\ UNCHANGED mvars

\* A faulty pass: the loop returns after the first page, link or no link.
IterateBreakFirst ==
    /\ ppc = "loop"
    /\ \/ /\ Len(pstops) # Len(rows)
          /\ perr' = ErrAssert
          /\ ppc' = "failed"
          /\ UNCHANGED <<path_soup, rows, timetable, fetched, absorbed, presult>>
       \/ /\ Len(pstops) = Len(rows)
          /\ timetable' = Absorb(timetable, rows)
          /\ absorbed' = absorbed + 1
          /\ presult' = <<pstops, Transpose(timetable')>>
          /\ ppc' = "done"
          /\ UNCHANGED <<path_soup, rows, fetched, perr>>
    /\ UNCHANGED pstops
    /\ UNCHANGED mvars

\* Lines 41-53: one pass of the while loop: the assertion, the for loop, and
\* either the return or the opening of the later page.
Iterate ==
    /\ ppc = "loop"
    /\ \/ /\ Len(pstops) # Len(rows)
          /\ perr' = ErrAssert
          /\ ppc' = "failed"
          /\ UNCHANGED <<path_soup, rows, timetable, fetched, absorbed, presult>>
       \/ /\ Len(pstops) = Len(rows)
          /\ timetable' = Absorb(timetable, rows)
          /\ absorbed' = absorbed + 1
          /\ \/ /\ ~path_soup.next
                /\ presult' = <<pstops, Transpose(timetable')>>
                /\ ppc' = "done"
                /\ UNCHANGED <<path_soup, rows, fetched, perr>>
             \/ /\ path_soup.next
                /\ \E pg \in Pages(Len(fetched) + 1) :
                    /\ path_soup' = pg
                    /\ rows' = pg.rows
                    /\ fetched' = Append(fetched, pg)
                /\ UNCHANGED <<presult, perr, ppc>>
    /\ UNCHANGED pstops
    /\ UNCHANGED mvars

PathNext == Open \/ Iterate

PathSpec == PathInit /\ [][PathNext]_vars

\* The loop is sequential code: a pass that can run does run.
FairPathSpec == PathSpec /\ WF_vars(PathNext)

\* ------------------------------------------------------------- properties
\* The stop indices usable for each anchor, read off the inputs.
HomeIdx == {k \in 1..Len(stops) : stops[k] \in DOMAIN home}

OfficeIdx == {k \in 1..Len(stops) : stops[k] \in DOMAIN office}

SetMax(S) == CHOOSE x \in S : \A y \in S : y <= x

SetMin(S) == CHOOSE x \in S : \A y \in S : x <= y

BothUsable == li >= 1 /\ HomeIdx # {} /\ OfficeIdx # {}

HomeFirst == SetMax(HomeIdx) < SetMin(OfficeIdx)

OfficeFirst == SetMax(OfficeIdx) < SetMin(HomeIdx)

\* C1: a route+direction whose home and office index ranges overlap (both
\* anchors usable) makes build_table fail with the ambiguous-direction error
\* and return nothing; it is never classified.
C1_DirectionRejection ==
    (BothUsable /\ ~HomeFirst /\ ~OfficeFirst)
        => (pc = "failed" /\ err = ErrAmbiguous /\ tables = None)

\* The origin and destination anchors of the route+direction in hand, by the
\* set its trips go to.
OrigSide == IF trip = "home2office" THEN home ELSE office

DestSide == IF trip = "home2office" THEN office ELSE home

\* The stops of a side at which the run t has a time.
Present(side, t) ==
    {k \in 1..Len(stops) : stops[k] \in DOMAIN side /\ t[k] # None}

Matchable(t) == Present(OrigSide, t) # {} /\ Present(DestSide, t) # {}

LeaveAt(orig, t, k) == t[k][1] - orig[stops[k]]

ArriveAt(dest, t, k) == t[k][1] + dest[stops[k]]

\* The trip x is a best match of the run t: its leave time is the greatest
\* time minus walk over the present origin stops and its board pair attains
\* it; its arrive time is the least time plus walk over the present
\* destination stops and its alight pair attains it.
BestMatch(x, orig, dest, t) ==
    /\ x[3] = line
    /\ \A k \in Present(orig, t) : LeaveAt(orig, t, k) <= x[1][1]
    /\ \E k \in Present(orig, t) :
           x[1] = <<LeaveAt(orig, t, k), t[k][1], stops[k]>>
    /\ \A k \in Present(dest, t) : x[2][1] <= ArriveAt(dest, t, k)
    /\ \E k \in Present(dest, t) :
           x[2] = <<ArriveAt(dest, t, k), t[k][1], stops[k]>>

\* The set the trips of the route+direction in hand go to.
TripSet == IF trip = "home2office" THEN home2office ELSE office2home

Classified == BothUsable /\ (HomeFirst \/ OfficeFirst)

\* A run was just matched: MatchRun is the only step that advances ri.
RunStep == pc = "runs" /\ ri' = ri + 1

Size(b) == BagCardinality(b)

\* C2: a run with a present usable origin stop and a present usable
\* destination stop emits exactly one trip, and that trip is a best match:
\* latest leave time, earliest arrive time, with the pairs that attain them.
C2_BestMatchEmitted ==
    /\ [](pc = "runs" /\ ri >= 1 /\ Matchable(times)
            => \E x \in BagToSet(TripSet) :
                   /\ BestMatch(x, OrigSide, DestSide, times)
                   /\ CopiesIn(x, TripSet) = 1)
    /\ [][(RunStep /\ Matchable(times')) => added' = added + 1]_vars

\* A run of a route+direction whose ranges do not overlap, with two present
\* origin stops of which the second gives the later leave time, and a present
\* destination stop; its trip is in the set.
C2_Witness ==
    /\ pc = "runs" /\ ri >= 1 /\ Classified /\ Matchable(times)
    /\ Cardinality(Present(OrigSide, times)) = 2
    /\ LET first == SetMin(Present(OrigSide, times))
           last == SetMax(Present(OrigSide, times))
       IN  /\ LeaveAt(OrigSide, times, first) < LeaveAt(OrigSide, times, last)
           /\ \E x \in BagToSet(TripSet) :
                  x[1] = <<LeaveAt(OrigSide, times, last), times[last][1], stops[last]>>

\* C3: when both anchors are usable and the index ranges do not overlap, the
\* classification succeeds and the label is the one the ranges give: home to
\* office exactly when maxHome < minOffice, office to home exactly when
\* maxOffice < minHome, with the origin and destination stops to match, and
\* the trips of the route+direction go to that list.
C3_DirectionTotality ==
    Classified =>
        /\ pc # "failed" /\ err = ""
        /\ trip = "home2office" <=> HomeFirst
        /\ trip = "office2home" <=> OfficeFirst
        /\ HomeFirst => idx_orig = idx_home /\ idx_dest = idx_office
        /\ OfficeFirst => idx_orig = idx_office /\ idx_dest = idx_home
        /\ (pc = "runs" /\ ri >= 1 /\ HomeFirst
                /\ Present(home, times) # {} /\ Present(office, times) # {})
               => \E x \in BagToSet(home2office) : BestMatch(x, home, office, times)
        /\ (pc = "runs" /\ ri >= 1 /\ OfficeFirst
                /\ Present(home, times) # {} /\ Present(office, times) # {})
               => \E x \in BagToSet(office2home) : BestMatch(x, office, home, times)

C3_Witness ==
    /\ Classified /\ OfficeFirst /\ li = 2
    /\ pc = "runs" /\ ri >= 1
    /\ Present(home, times) # {} /\ Present(office, times) # {}
    /\ home2office # EmptyBag /\ office2home # EmptyBag

NoDuplicates(seq) == \A i, j \in 1..Len(seq) : seq[i] = seq[j] => i = j

\* The trip the run t yields in the route+direction in hand.
Emitted(t) ==
    <<MaxCand(OrigCands(idx_orig, t)), MinCand(DestCands(idx_dest, t)), line>>

\* C4: the lists returned hold no trip twice, and a run whose trip is in the
\* set already (the same run fed again, or the same trip of another run or
\* entry) leaves both sets as they were.
C4_Dedup ==
    /\ [](pc = "done" =>
            /\ NoDuplicates(home2office) /\ NoDuplicates(office2home)
            /\ NoDuplicates(tables[1]) /\ NoDuplicates(tables[2])
            /\ Len(tables[1]) = Len(home2office)
            /\ Len(tables[2]) = Len(office2home))
    /\ [][(RunStep /\ Matchable(times') /\ BagIn(Emitted(times'), TripSet))
            => UNCHANGED <<home2office, office2home>>]_vars
    /\ [][(RunStep /\ ri >= 1 /\ times' = times)
            => UNCHANGED <<home2office, office2home>>]_vars

\* Two runs of the one route+direction taken gave a trip each, and the list
\* returned holds one.
C4_Witness ==
    /\ pc = "done" /\ li = 1 /\ added = 2
    /\ Len(home2office) = 1 /\ Len(tables[1]) = 1

TodMinutes(hm) == hm[1] * 60 + hm[2]

LeaveSorted(rws) ==
    \A i \in 1..(Len(rws) - 1) :
        TodMinutes(rws[i][1][1]) <= TodMinutes(rws[i + 1][1][1])

\* C5: in each list returned, the leave-anchor times of consecutive trips,
\* compared as times of day, ascend.
C5_SortedByTimeOfDay ==
    pc = "done" => LeaveSorted(tables[1]) /\ LeaveSorted(tables[2])

\* C6: a run with no present usable origin stop, or no present usable
\* destination stop, adds no trip and raises nothing, and build_table stays
\* in the loop over the runs.
C6_NoServiceSkip ==
    [][(RunStep /\ ~Matchable(times'))
          => /\ UNCHANGED <<home2office, office2home, added, tables>>
             /\ err' = "" /\ pc' = "runs"]_vars

C6_Witness ==
    /\ pc = "runs" /\ ri = 2
    /\ Present(OrigSide, times) = {} /\ Present(DestSide, times) # {}
    /\ Size(TripSet) = 1 /\ added = 1

\* C9: the only failure of the classification is the ambiguous-direction
\* error, raised only when both anchors are usable and the ranges overlap.
C9_OnlyAmbiguousError ==
    err # "" => (err = ErrAmbiguous /\ BothUsable /\ ~HomeFirst /\ ~OfficeFirst)

\* What a cell stands for: no value for the no-service marker, else the time
\* of day its text shows.
Shown(text) == IF text = Bar THEN None ELSE Some(parse_time(text))

\* Every row of every page has as many cells as the first row of the page.
WellFormed(pages) ==
    \A i \in 1..Len(pages) : \A k \in 1..Len(pages[i].rows) :
        Len(pages[i].rows[k]) = Len(pages[i].rows[1])

\* The runs of the pages: the columns of page 1 in order, then those of page 2, ...
RECURSIVE RunsOf(_)
RunsOf(pages) ==
    IF pages = <<>> THEN <<>>
    ELSE LET pg == pages[Len(pages)].rows
         IN  RunsOf(SubSeq(pages, 1, Len(pages) - 1))
                 \o [j \in 1..(IF pg = <<>> THEN 0 ELSE Len(pg[1])) |->
                        [k \in 1..Len(pg) |-> Shown(pg[k][j])]]

\* C7: for pages whose rows have equal numbers of cells, parse_path returns
\* the stops and the concatenation, in page order, of the pages' runs; every
\* run has one entry per stop, None where the cell is '|'.
C7_Concatenation ==
    (ppc = "done" /\ WellFormed(fetched)) =>
        /\ presult = <<pstops, RunsOf(fetched)>>
        /\ \A j \in 1..Len(presult[2]) : Len(presult[2][j]) = Len(pstops)

C7_Witness ==
    /\ ppc = "done" /\ WellFormed(fetched) /\ Len(fetched) = 2
    /\ Len(pstops) = 2 /\ Len(presult[2]) = 2
    /\ presult[2][1] = <<None, Some(75)>>
    /\ presult[2][2] = <<Some(135), None>>

\* C8: a page whose number of rows differs from the number of stops makes
\* parse_path fail without absorbing a cell of it and without a result; a
\* result is returned only when every page opened had one row per stop.
C8_StructuralMismatch ==
    /\ [][(ppc = "loop" /\ Len(rows) # Len(pstops))
            => /\ ppc' = "failed" /\ perr' = ErrAssert
               /\ UNCHANGED <<timetable, absorbed, presult>>]_vars
    /\ [](ppc = "failed" => presult = None)
    /\ [](ppc = "done" =>
            \A i \in 1..Len(fetched) : Len(fetched[i].rows) = Len(pstops))

C8_Witness ==
    /\ ppc = "failed" /\ absorbed = 1 /\ Len(fetched) = 2
    /\ Len(rows) < Len(pstops) /\ timetable # <<>> /\ timetable[1] # <<>>

\* C10: the loop absorbs the pages once each in link order, follows every
\* link, returns at the first page without a link, and always ends.
C10_Pagination ==
    /\ [](ppc = "loop" => absorbed = Len(fetched) - 1)
    /\ [](ppc = "done" =>
            /\ absorbed = Len(fetched)
            /\ ~fetched[Len(fetched)].next
            /\ \A i \in 1..(Len(fetched) - 1) : fetched[i].next)
    /\ [][absorbed' \in {absorbed, absorbed + 1}]_vars
    /\ [][(ppc = "loop" /\ Len(rows) = Len(pstops) /\ path_soup.next)
            => (ppc' = "loop" /\ Len(fetched') = Len(fetched) + 1)]_vars
    /\ <>(ppc \in {"done", "failed"})

C10_Witness ==
    /\ ppc = "done" /\ Len(fetched) = 2 /\ absorbed = 2
    /\ fetched[1].next /\ presult # None

=============================================================================
